---- MODULE Spec2Model ----
(***************************************************************************)
(* Model of node-split (src/index.js): option validation (checkOptions),   *)
(* suffix-length calculation and filename generation (getSuffixLength,     *)
(* createFilenames), the splitting loops (splitByLines, splitByBytes,      *)
(* _split) and the asynchronous entry point split with its write fan-out.  *)
(*                                                                         *)
(* JavaScript values are modelled as follows.                              *)
(*  - A raw (unvalidated) option value is a tagged record: a number        *)
(*    (finite, NaN or Infinity; a finite number is n or n + 1/2, so that   *)
(*    Math.floor is not the identity), a string (sequence of one-character *)
(*    strings) or null.                                                    *)
(*  - An object is a function from the set of its own property names.      *)
(*  - A Buffer is a sequence of bytes; JavaScript's 0-based indices are    *)
(*    kept and translated at the two accessors at() and slice().           *)
(*  - TLC integers are 32 bits wide, so Number.MAX_SAFE_INTEGER (2^53 - 1) *)
(*    is scaled down to MAX_SAFE_INTEGER below; every arithmetic result of *)
(*    the model stays exact, as every double within the safe range is.     *)
(***************************************************************************)
EXTENDS Integers, Sequences, FiniteSets, TLC

VARIABLES
    pc,          \* position of the modelled call
    buffer,      \* the input Buffer
    rawOptions,  \* the caller's options argument (_options)
    options,     \* the record checkOptions returned (or NoOptions)
    error,       \* message of the error thrown ("" while none)
    size,        \* piece count handed to createFilenames
    filenames,   \* result of createFilenames
    cur,         \* buffer argument of the running splitBy* loop
    loop,        \* local variables of the running splitBy* loop
    lineQueue,   \* lines still to be mapped through splitByBytes (line_bytes)
    mapped,      \* results of the map() of _split so far (line_bytes)
    splitted,    \* the piece sequence _split returned
    hasCallback, \* whether split() was given a function as callback
    ticks,       \* callbacks scheduled with process.nextTick, in order
    writes,      \* per piece: state of its fs.writeFile ("pending"/"ok"/"failed")
    done,        \* closure counter of split()
    errored,     \* closure flag of split()
    calls,       \* history of invocations of the caller's callback
    uncaught     \* number of errors thrown by the rethrow default callback

vars == <<pc, buffer, rawOptions, options, error, size, filenames, cur, loop,
          lineQueue, mapped, splitted, hasCallback, ticks, writes, done,
          errored, calls, uncaught>>

----------------------------------------------------------------------------
(* Bounds of the model *)

\* stand-in for Number.MAX_SAFE_INTEGER (2^53 - 1), scaled to TLC's integers
MAX_SAFE_INTEGER == 1000000000
MIN_SAFE_INTEGER == -MAX_SAFE_INTEGER

\* longest input buffer of the splitter specification
MaxBufLen == 4
\* longest input buffer of the asynchronous specification
MaxAsyncLen == 3
\* largest piece count handed to createFilenames
MaxSize == 30
\* cap on the pieces a loop may push (only a loop that never ends reaches it)
MaxPieces == MaxBufLen + 2

----------------------------------------------------------------------------
(* JavaScript values *)

Null == [t |-> "null", kind |-> "null", n |-> 0, frac |-> FALSE, s |-> <<>>]
Num(k) == [t |-> "number", kind |-> "finite", n |-> k, frac |-> FALSE, s |-> <<>>]
Half(k) == [t |-> "number", kind |-> "finite", n |-> k, frac |-> TRUE, s |-> <<>>]
NaN == [t |-> "number", kind |-> "nan", n |-> 0, frac |-> FALSE, s |-> <<>>]
Infinity == [t |-> "number", kind |-> "inf", n |-> 0, frac |-> FALSE, s |-> <<>>]
Str(chars) == [t |-> "string", kind |-> "string", n |-> 0, frac |-> FALSE, s |-> chars]

Digits == <<"0", "1", "2", "3", "4", "5", "6", "7", "8", "9">>

IsDigit(c) == \E d \in 1..10 : Digits[d] = c

DigitValue(c) == (CHOOSE d \in 1..10 : Digits[d] = c) - 1

AllDigits(chars) == \A k \in 1..Len(chars) : IsDigit(chars[k])

RECURSIVE ParseDigits(_)
ParseDigits(chars) ==
    IF chars = <<>> THEN 0
    ELSE 10 * ParseDigits(SubSeq(chars, 1, Len(chars) - 1))
         + DigitValue(chars[Len(chars)])

\* String(n) for an integer n >= 0
RECURSIVE NumberToString(_)
NumberToString(k) ==
    IF k < 10 THEN <<Digits[k + 1]>>
    ELSE NumberToString(k \div 10) \o <<Digits[(k % 10) + 1]>>

\* Number(v): of the strings the model draws (digits followed by letters),
\* exactly the all-digit ones are numeric literals, and '' converts to 0.
ToNumber(v) ==
    IF v.t = "number" THEN v
    ELSE IF v.t = "string" /\ AllDigits(v.s) THEN Num(ParseDigits(v.s))
    ELSE NaN

\* '' + v
StringOf(v) ==
    IF v.t = "string" THEN v.s
    ELSE IF v.kind = "finite" /\ ~v.frac /\ v.n >= 0 THEN NumberToString(v.n)
    ELSE <<"N", "a", "N">>

isNaN(v) == ToNumber(v).kind = "nan"

\* v < k for an integer k (false for NaN and Infinity)
LessThan(v, k) == LET x == ToNumber(v) IN x.kind = "finite" /\ x.n < k

\* Math.floor(v) of a finite value
MathFloor(v) == ToNumber(v).n

isSafe(number) ==
    LET x == ToNumber(number)
    IN /\ x.kind = "finite"
       /\ MIN_SAFE_INTEGER <= x.n
       /\ x.n + (IF x.frac THEN 1 ELSE 0) <= MAX_SAFE_INTEGER

isDefined(property, object) ==
    /\ property \in DOMAIN object
    /\ object[property] # Null

\* isDefined on a record checkOptions built: its values are never null
has(property, object) == property \in DOMAIN object

NoOptions == [none |-> TRUE]
EmptyObject == [k \in {} |-> Null]
NotAnObject == Null

----------------------------------------------------------------------------
(* checkOptions *)

\* outcome of a call that may throw: the error message, or the value returned
Throw(message) == [ok |-> FALSE, error |-> message, value |-> EmptyObject]
Return(object) == [ok |-> TRUE, error |-> "", value |-> object]

ToUpperCase(c) ==
    CASE c = "k" -> "K"
      [] c = "m" -> "M"
      [] c = "b" -> "B"
      [] c = "g" -> "G"
      [] OTHER -> c

UpperCase(chars) == [k \in 1..Len(chars) |-> ToUpperCase(chars[k])]

\* number of leading digits of chars
RECURSIVE DigitPrefix(_)
DigitPrefix(chars) ==
    IF chars # <<>> /\ IsDigit(Head(chars)) THEN 1 + DigitPrefix(Tail(chars))
    ELSE 0

\* /^(\d+)(KB|MB|K|M)$/i.exec(size): <<>> for null, else <<result[1], result[2]>>
SizeRegexExec(chars) ==
    LET d == DigitPrefix(chars)
        rest == SubSeq(chars, d + 1, Len(chars))
    IN IF d >= 1 /\ UpperCase(rest) \in {<<"K">>, <<"M">>, <<"K", "B">>, <<"M", "B">>}
       THEN <<SubSeq(chars, 1, d), rest>>
       ELSE <<>>

\* the switch on result[2]; a spelling it has no case for yields undefined,
\* which makes the product NaN
Unit(x) ==
    CASE x \in {<<"k">>, <<"K">>} -> Num(1024)
      [] x \in {<<"m">>, <<"M">>} -> Num(1048576)
      [] x \in {<<"k", "b">>, <<"K", "B">>} -> Num(1000)
      [] x \in {<<"m", "b">>, <<"M", "B">>} -> Num(1000000)
      [] OTHER -> NaN

\* result[1] * unit
Times(digits, unit) ==
    IF unit.kind = "finite" THEN Num(ParseDigits(digits) * unit.n) ELSE NaN

checkLines(_options) ==
    IF isNaN(_options["lines"]) \/ ~isSafe(_options["lines"])
       \/ LessThan(_options["lines"], 1)
    THEN Throw("Invalid number of lines")
    ELSE Return("lines" :> MathFloor(_options["lines"]))

\* the branch of a size given as a sized string; result is what exec returned
checkSizeString(key, result) ==
    IF result = <<>> THEN Throw("Invalid number of bytes")
    ELSE IF ~isSafe(Times(result[1], Unit(result[2])))
         THEN Throw("Invalid number of bytes")
         ELSE Return(key :> Times(result[1], Unit(result[2])).n)

checkSize(key, sz) ==
    IF isNaN(sz)
    THEN checkSizeString(key, IF sz.t = "string" THEN SizeRegexExec(sz.s) ELSE <<>>)
    ELSE IF ~isSafe(sz) \/ LessThan(sz, 1)
         THEN Throw("Invalid number of bytes")
         ELSE Return(key :> MathFloor(sz))

checkBytes(_options, byBytes) ==
    checkSize(IF byBytes THEN "bytes" ELSE "line_bytes",
              IF byBytes THEN _options["bytes"] ELSE _options["line_bytes"])

\* the first error thrown by the stages, in their order, else the record built
FirstThrowOrReturn(l, b, p) ==
    IF ~l.ok THEN l
    ELSE IF ~b.ok THEN b
    ELSE IF ~p.ok THEN p
    ELSE Return(l.value @@ b.value @@ p.value)

checkSuffixLength(_options) ==
    IF isDefined("suffix_length", _options)
    THEN IF ~isSafe(_options["suffix_length"])
            \/ LessThan(_options["suffix_length"], 1)
         THEN Throw("Invalid suffix length")
         ELSE Return("suffix_length" :> MathFloor(_options["suffix_length"]))
    ELSE Return(EmptyObject)

checkNumericSuffixes(_options) ==
    IF isDefined("numeric_suffixes", _options)
    THEN IF ~isSafe(_options["numeric_suffixes"])
            \/ LessThan(_options["numeric_suffixes"], 0)
         THEN Throw("")
         ELSE Return("numeric_suffixes" :> MathFloor(_options["numeric_suffixes"]))
    ELSE Return(EmptyObject)

checkAdditionalSuffix(_options) ==
    Return(("prefix" :> StringOf(_options["prefix"]))
           @@ ("additional_suffix" :>
                 (IF isDefined("additional_suffix", _options)
                  THEN StringOf(_options["additional_suffix"]) ELSE <<>>)))

checkPrefix(_options) ==
    FirstThrowOrReturn(checkSuffixLength(_options),
                       checkNumericSuffixes(_options),
                       checkAdditionalSuffix(_options))

checkOptions(_options) ==
    IF _options = NotAnObject THEN Throw("Options must be an object")
    ELSE
    LET byLines == isDefined("lines", _options)
        byBytes == isDefined("bytes", _options)
        byLineBytes == isDefined("line_bytes", _options)
    IN IF (byLines /\ byBytes) \/ (byBytes /\ byLineBytes) \/ (byLines /\ byLineBytes)
       THEN Throw("Cannot split in more than one way")
       ELSE IF ~byLines /\ ~byBytes /\ ~byLineBytes
       THEN Throw("Splitting way is not specified")
       ELSE FirstThrowOrReturn(
                IF byLines THEN checkLines(_options) ELSE Return(EmptyObject),
                IF byBytes \/ byLineBytes THEN checkBytes(_options, byBytes)
                ELSE Return(EmptyObject),
                IF isDefined("prefix", _options) THEN checkPrefix(_options)
                ELSE Return(EmptyObject))

----------------------------------------------------------------------------
(* getSuffixLength, createFilenames *)

RECURSIVE getSuffixLength(_, _)
getSuffixLength(length, symbolLength) ==
    IF length \div symbolLength = 0 THEN 0
    ELSE 1 + getSuffixLength(length \div symbolLength, symbolLength)

replicate(length, value) == [k \in 1..length |-> value]

Max(a, b) == IF a >= b THEN a ELSE b

\* chars.slice(-k) for k >= 0 (slice(-0) is slice(0), the whole string)
SliceLast(chars, k) ==
    IF k = 0 \/ k >= Len(chars) THEN chars
    ELSE SubSeq(chars, Len(chars) - k + 1, Len(chars))

alphabet == <<"a", "b", "c", "d", "e", "f", "g", "h", "i", "j", "k", "l", "m",
              "n", "o", "p", "q", "r", "s", "t", "u", "v", "w", "x", "y", "z">>

\* the inner for loop followed by suffix.reverse().join('')
RECURSIVE AlphabeticSuffix(_)
AlphabeticSuffix(n) ==
    IF n > 0
    THEN AlphabeticSuffix(n \div Len(alphabet)) \o <<alphabet[(n % Len(alphabet)) + 1]>>
    ELSE <<>>

\* options.suffix_length after the isDefined('suffix_length') branch
SuffixLengthFor(sz, opts, symbolLength) ==
    IF has("suffix_length", opts) THEN opts["suffix_length"]
    ELSE Max(getSuffixLength(sz, symbolLength), 2)

NumericFilenames(sz, opts) ==
    LET suffix_length == SuffixLengthFor(sz, opts, 10)
        padding == replicate(suffix_length, "0")
    IN [i \in 1..sz |->
          opts["prefix"]
          \o SliceLast(padding \o NumberToString(opts["numeric_suffixes"] + (i - 1)),
                       suffix_length)
          \o opts["additional_suffix"]]

AlphabeticFilenames(sz, opts) ==
    LET suffix_length == SuffixLengthFor(sz, opts, Len(alphabet))
        padding == replicate(suffix_length, "a")
    IN [i \in 1..sz |->
          opts["prefix"]
          \o SliceLast(padding \o AlphabeticSuffix(i - 1), suffix_length)
          \o opts["additional_suffix"]]

\* the options object as createFilenames leaves it when it returns: an
\* absent suffix_length has been assigned
OptionsAfterCreateFilenames(sz, opts) ==
    IF has("suffix_length", opts) THEN opts
    ELSE ("suffix_length" :> SuffixLengthFor(sz, opts, IF has("numeric_suffixes", opts)
                                                       THEN 10 ELSE Len(alphabet)))
         @@ opts

createFilenames(sz, opts) ==
    IF has("numeric_suffixes", opts)
    THEN IF ~isSafe(Num(opts["numeric_suffixes"] + sz - 1))
         THEN Throw("")
         ELSE IF has("suffix_length", opts)
                 /\ opts["suffix_length"] < getSuffixLength(sz, 10)
         THEN Throw("")
         ELSE Return(NumericFilenames(sz, opts))
    ELSE IF has("suffix_length", opts)
            /\ opts["suffix_length"] < getSuffixLength(sz, Len(alphabet))
         THEN Throw("output file suffixes exhausted")
         ELSE Return(AlphabeticFilenames(sz, opts))

----------------------------------------------------------------------------
(* splitByLines, splitByBytes, _split *)

LF == 10
Undefined == -1

\* buffer[index], 0-based
at(buf, index) == IF index < Len(buf) THEN buf[index + 1] ELSE Undefined

Min(a, b) == IF a <= b THEN a ELSE b

\* buffer.slice(begin, end), 0-based, end exclusive and clamped
slice(buf, b, e) == SubSeq(buf, b + 1, Min(e, Len(buf)))

\* the loop variables at the for statement's initialisation
LinesLoopInit == [name |-> "splitByLines", begin |-> 0, index |-> 0, end |-> 0,
                  lineCount |-> 1, splitted |-> <<>>, brk |-> FALSE]

BytesLoopInit(sz) == [name |-> "splitByBytes", begin |-> 0, index |-> 0, end |-> sz,
                      lineCount |-> 1, splitted |-> <<>>, brk |-> FALSE]

\* splitByLinesIter with lineCount restarted at 0 instead of 1 after a piece
splitByLinesIter_CountsFromZero(buf, lines, s) ==
    IF s.begin = Len(buf) THEN [s EXCEPT !.brk = TRUE]
    ELSE IF Len(buf) < s.index
    THEN [s EXCEPT !.splitted = Append(@, slice(buf, s.begin, Len(buf))),
                   !.brk = TRUE]
    ELSE IF at(buf, s.index) = LF
    THEN IF s.lineCount = lines
         THEN [s EXCEPT !.splitted = Append(@, slice(buf, s.begin, s.index + 1)),
                        !.begin = s.index + 1,
                        !.lineCount = 0,
                        !.index = s.index + 1]
         ELSE [s EXCEPT !.lineCount = s.lineCount + 1, !.index = s.index + 1]
    ELSE [s EXCEPT !.index = s.index + 1]

\* one iteration of the loop of splitByLines (body, then ++index)
splitByLinesIter(buf, lines, s) ==
    IF s.begin = Len(buf) THEN [s EXCEPT !.brk = TRUE]
    ELSE IF Len(buf) < s.index
    THEN [s EXCEPT !.splitted = Append(@, slice(buf, s.begin, Len(buf))),
                   !.brk = TRUE]
    ELSE IF at(buf, s.index) = LF
    THEN IF s.lineCount = lines
         THEN [s EXCEPT !.splitted = Append(@, slice(buf, s.begin, s.index + 1)),
                        !.begin = s.index + 1,
                        !.lineCount = 1,
                        !.index = s.index + 1]
         ELSE [s EXCEPT !.lineCount = s.lineCount + 1, !.index = s.index + 1]
    ELSE [s EXCEPT !.index = s.index + 1]

\* splitByBytesIter without the push of the final, shorter chunk
splitByBytesIter_DropsRemainder(buf, sz, s) ==
    IF s.begin = Len(buf) THEN [s EXCEPT !.brk = TRUE]
    ELSE IF Len(buf) < s.end
    THEN [s EXCEPT !.brk = TRUE]
    ELSE [s EXCEPT !.splitted = Append(@, slice(buf, s.begin, s.end)),
                   !.begin = s.end,
                   !.end = s.end + sz]

\* one iteration of the loop of splitByBytes (body, then begin = end, end += size)
splitByBytesIter(buf, sz, s) ==
    IF s.begin = Len(buf) THEN [s EXCEPT !.brk = TRUE]
    ELSE IF Len(buf) < s.end
    THEN [s EXCEPT !.splitted = Append(@, slice(buf, s.begin, Len(buf))),
                   !.brk = TRUE]
    ELSE [s EXCEPT !.splitted = Append(@, slice(buf, s.begin, s.end)),
                   !.begin = s.end,
                   !.end = s.end + sz]

RECURSIVE LinesLoopRun(_, _, _)
LinesLoopRun(buf, lines, s) ==
    IF s.brk THEN s.splitted
    ELSE LinesLoopRun(buf, lines, splitByLinesIter(buf, lines, s))

splitByLines(buf, lines) == LinesLoopRun(buf, lines, LinesLoopInit)

RECURSIVE BytesLoopRun(_, _, _)
BytesLoopRun(buf, sz, s) ==
    IF s.brk THEN s.splitted
    ELSE BytesLoopRun(buf, sz, splitByBytesIter(buf, sz, s))

splitByBytes(buf, sz) == BytesLoopRun(buf, sz, BytesLoopInit(sz))

\* reduce(function(acc, line) { acc.push.apply(acc, line); return acc; }, [])
RECURSIVE Flatten(_)
Flatten(arrays) ==
    IF arrays = <<>> THEN <<>> ELSE Head(arrays) \o Flatten(Tail(arrays))

_split(buf, opts) ==
    IF has("lines", opts) THEN splitByLines(buf, opts["lines"])
    ELSE IF has("bytes", opts) THEN splitByBytes(buf, opts["bytes"])
    ELSE LET lines == splitByLines(buf, 1)
         IN Flatten([k \in 1..Len(lines) |-> splitByBytes(lines[k], opts["line_bytes"])])

----------------------------------------------------------------------------
(* Inputs *)

Bytes == {LF, 97, 98}

Buffers(maxLen) == UNION {[1..k -> Bytes] : k \in 0..maxLen}

DigitStrings ==
    UNION {[1..k -> {"0", "1", "2", "9"}] : k \in 0..3}

UnitSpellings ==
    {<<>>, <<"K">>, <<"M">>, <<"K", "B">>, <<"M", "B">>, <<"k">>, <<"m">>,
     <<"k", "b">>, <<"m", "b">>, <<"K", "b">>, <<"G">>, <<"G", "B">>,
     <<"K", "K">>, <<"K", "1">>}

\* raw values tried as a count
RawCounts ==
    {Num(-1), Num(0), Half(0), Num(1), Half(1), Num(2), Num(3),
     Num(MAX_SAFE_INTEGER), Half(MAX_SAFE_INTEGER), Num(MAX_SAFE_INTEGER + 1),
     NaN, Infinity}
    \cup {Str(d \o u) : d \in DigitStrings, u \in UnitSpellings}

ModeKeys == {"lines", "bytes", "line_bytes"}

PrefixParts ==
    {("prefix" :> Str(<<"o">>)) @@ sl @@ ns @@ ad :
        sl \in {EmptyObject} \cup
               {"suffix_length" :> v :
                   v \in {Null, Num(0), Num(1), Half(2), NaN, Str(<<"2">>),
                          Num(MAX_SAFE_INTEGER + 1)}},
        ns \in {EmptyObject} \cup
               {"numeric_suffixes" :> v :
                   v \in {Num(-1), Num(0), Half(5), Infinity}},
        ad \in {EmptyObject} \cup
               {"additional_suffix" :> v : v \in {Str(<<".", "b">>), Num(7)}}}

RawOptionsSet ==
    {NotAnObject, EmptyObject}
    \cup {key :> v : key \in ModeKeys, v \in RawCounts}
    \cup {(key :> Num(2)) @@ (other :> v) :
             key \in ModeKeys, other \in ModeKeys, v \in {Null, Num(1)}}
    \cup {("lines" :> Num(1)) @@ ("bytes" :> Num(1)) @@ ("line_bytes" :> Num(1))}
    \cup {m @@ p : m \in {"lines" :> Num(2), "bytes" :> Str(<<"1", "K">>)},
                   p \in PrefixParts}
    \cup {("lines" :> Num(2)) @@ ("suffix_length" :> Num(0))}

\* options of the splitter specification: every way of giving a small count
RawSplitOptions ==
    {key :> v : key \in ModeKeys,
                v \in {Num(1), Num(2), Half(2), Num(3), Str(<<"2">>)}}
    \cup {key :> Str(v) : key \in {"bytes", "line_bytes"},
                          v \in {<<"0", "K">>, <<"1", "K">>, <<"0", "0", "m", "b">>}}

Accepted(raws) == {checkOptions(r).value : r \in {x \in raws : checkOptions(x).ok}}

\* options handed to createFilenames
RawNameOptions ==
    {("lines" :> Num(1)) @@ ("prefix" :> Str(<<"o", ".">>)) @@ sl @@ ns @@ ad :
        sl \in {EmptyObject} \cup {"suffix_length" :> Num(k) : k \in 1..3},
        ns \in {EmptyObject} \cup
               {"numeric_suffixes" :> Num(k) :
                   k \in {0, 5, 95, MAX_SAFE_INTEGER - 2}},
        ad \in {EmptyObject, "additional_suffix" :> Str(<<".", "b">>)}}

\* options of the asynchronous specification
RawAsyncOptions ==
    {NotAnObject, EmptyObject, "lines" :> Num(0),
     ("lines" :> Num(1)) @@ ("bytes" :> Num(1)), "bytes" :> Str(<<"1", "G">>)}
    \cup {m @@ p :
            m \in {"lines" :> Num(1), "bytes" :> Num(1), "bytes" :> Num(2),
                   "line_bytes" :> Str(<<"1", "K">>)},
            p \in {EmptyObject,
                   "prefix" :> Str(<<"o">>),
                   ("prefix" :> Str(<<"o">>)) @@ ("suffix_length" :> Num(1)),
                   ("prefix" :> Str(<<"o">>)) @@ ("numeric_suffixes" :> Num(0)),
                   ("prefix" :> Str(<<"o">>))
                      @@ ("numeric_suffixes" :> Num(MAX_SAFE_INTEGER - 1))}}

----------------------------------------------------------------------------
(* Variables a specification leaves at rest *)

asyncVars == <<hasCallback, ticks, writes, done, errored, calls, uncaught>>
loopVars == <<cur, loop, lineQueue, mapped>>
nameVars == <<size, filenames>>

AsyncIdle ==
    /\ hasCallback = FALSE /\ ticks = <<>> /\ writes = <<>> /\ done = 0
    /\ errored = FALSE /\ calls = <<>> /\ uncaught = 0

LoopIdle == cur = <<>> /\ loop = LinesLoopInit /\ lineQueue = <<>> /\ mapped = <<>>

NamesIdle == size = 0 /\ filenames = <<>>

----------------------------------------------------------------------------
(* Specification of checkOptions: one call on each raw options value *)

InitOptions ==
    /\ pc = "checkOptions"
    /\ rawOptions \in RawOptionsSet
    /\ buffer = <<>> /\ options = NoOptions /\ error = <<>> /\ splitted = <<>>
    /\ NamesIdle /\ LoopIdle /\ AsyncIdle

CheckOptionsReturns ==
    /\ pc = "checkOptions"
    /\ checkOptions(rawOptions).ok
    /\ options' = checkOptions(rawOptions).value
    /\ pc' = "checked"
    /\ UNCHANGED <<buffer, rawOptions, error, splitted, nameVars, loopVars, asyncVars>>

CheckOptionsThrows ==
    /\ pc = "checkOptions"
    /\ ~checkOptions(rawOptions).ok
    /\ error' = <<checkOptions(rawOptions).error>>
    /\ pc' = "threw"
    /\ UNCHANGED <<buffer, rawOptions, options, splitted, nameVars, loopVars, asyncVars>>

NextOptions == CheckOptionsReturns \/ CheckOptionsThrows

SpecOptions == InitOptions /\ [][NextOptions]_vars

----------------------------------------------------------------------------
(* Specification of createFilenames: one call on each size and record *)

InitNames ==
    /\ pc = "createFilenames"
    /\ size \in 0..MaxSize
    /\ options \in Accepted(RawNameOptions)
    /\ filenames = <<>>
    /\ rawOptions = EmptyObject /\ buffer = <<>> /\ error = <<>> /\ splitted = <<>>
    /\ LoopIdle /\ AsyncIdle

CreateFilenamesReturns ==
    /\ pc = "createFilenames"
    /\ createFilenames(size, options).ok
    /\ filenames' = createFilenames(size, options).value
    /\ options' = OptionsAfterCreateFilenames(size, options)
    /\ pc' = "named"
    /\ UNCHANGED <<buffer, rawOptions, error, size, splitted, loopVars, asyncVars>>

CreateFilenamesThrows ==
    /\ pc = "createFilenames"
    /\ ~createFilenames(size, options).ok
    /\ error' = <<createFilenames(size, options).error>>
    /\ pc' = "threw"
    /\ UNCHANGED <<buffer, rawOptions, options, nameVars, splitted, loopVars, asyncVars>>

NextNames == CreateFilenamesReturns \/ CreateFilenamesThrows

SpecNames == InitNames /\ [][NextNames]_vars

----------------------------------------------------------------------------
(* Specification of _split: the two loops run one iteration per step *)

InitSplit ==
    /\ pc = "_split"
    /\ buffer \in Buffers(MaxBufLen)
    /\ options \in Accepted(RawSplitOptions)
    /\ rawOptions = EmptyObject /\ error = <<>> /\ splitted = <<>>
    /\ NamesIdle /\ LoopIdle /\ AsyncIdle

\* _split dispatches on the mode and enters the first loop
EnterSplit ==
    /\ pc = "_split"
    /\ cur' = buffer
    /\ loop' = IF has("lines", options) THEN LinesLoopInit
               ELSE IF has("bytes", options) THEN BytesLoopInit(options["bytes"])
               ELSE LinesLoopInit
    /\ pc' = "loop"
    /\ UNCHANGED <<buffer, rawOptions, options, error, splitted, lineQueue, mapped,
                   nameVars, asyncVars>>

\* the lines argument of the running splitByLines call
LinesArgument == IF has("lines", options) THEN options["lines"] ELSE 1

SplitByLinesIteration ==
    /\ pc = "loop" /\ loop.name = "splitByLines" /\ ~loop.brk
    /\ loop' = splitByLinesIter(cur, LinesArgument, loop)
    /\ UNCHANGED <<pc, buffer, rawOptions, options, error, splitted, cur, lineQueue,
                   mapped, nameVars, asyncVars>>

\* splitByLines returns: to _split's caller (lines) or into the map (line_bytes)
SplitByLinesReturns ==
    /\ pc = "loop" /\ loop.name = "splitByLines" /\ loop.brk
    /\ IF has("lines", options)
       THEN /\ splitted' = loop.splitted
            /\ pc' = "done"
            /\ UNCHANGED lineQueue
       ELSE /\ lineQueue' = loop.splitted
            /\ pc' = "map"
            /\ UNCHANGED splitted
    /\ UNCHANGED <<buffer, rawOptions, options, error, cur, loop, mapped,
                   nameVars, asyncVars>>

\* map() calls splitByBytes on the next line, or reduce() builds the result
MapNextLine ==
    /\ pc = "map"
    /\ IF lineQueue = <<>>
       THEN /\ splitted' = Flatten(mapped)
            /\ pc' = "done"
            /\ UNCHANGED <<cur, loop, lineQueue>>
       ELSE /\ cur' = Head(lineQueue)
            /\ lineQueue' = Tail(lineQueue)
            /\ loop' = BytesLoopInit(options["line_bytes"])
            /\ pc' = "loop"
            /\ UNCHANGED splitted
    /\ UNCHANGED <<buffer, rawOptions, options, error, mapped, nameVars, asyncVars>>

\* the size argument of the running splitByBytes call
BytesArgument == IF has("bytes", options) THEN options["bytes"] ELSE options["line_bytes"]

SplitByBytesIteration ==
    /\ pc = "loop" /\ loop.name = "splitByBytes" /\ ~loop.brk
    /\ Len(loop.splitted) < MaxPieces
    /\ loop' = splitByBytesIter(cur, BytesArgument, loop)
    /\ UNCHANGED <<pc, buffer, rawOptions, options, error, splitted, cur, lineQueue,
                   mapped, nameVars, asyncVars>>

SplitByBytesReturns ==
    /\ pc = "loop" /\ loop.name = "splitByBytes" /\ loop.brk
    /\ IF has("bytes", options)
       THEN /\ splitted' = loop.splitted
            /\ pc' = "done"
            /\ UNCHANGED mapped
       ELSE /\ mapped' = Append(mapped, loop.splitted)
            /\ pc' = "map"
            /\ UNCHANGED splitted
    /\ UNCHANGED <<buffer, rawOptions, options, error, cur, loop, lineQueue,
                   nameVars, asyncVars>>

NextSplit ==
    \/ EnterSplit
    \/ SplitByLinesIteration
    \/ SplitByLinesReturns
    \/ MapNextLine
    \/ SplitByBytesIteration
    \/ SplitByBytesReturns

SpecSplit == InitSplit /\ [][NextSplit]_vars

----------------------------------------------------------------------------
(* Claims about the splitter *)

CountLF(piece) == Cardinality({k \in 1..Len(piece) : piece[k] = LF})

EndsWithLF(piece) == piece # <<>> /\ piece[Len(piece)] = LF

\* C1: the pieces _split returns, concatenated in output order, are the
\* input buffer, and no piece is empty.
C1_PiecesReconstructBuffer ==
    pc = "done" =>
        /\ Flatten(splitted) = buffer
        /\ \A k \in 1..Len(splitted) : splitted[k] # <<>>

\* a buffer split in several pieces in line_bytes mode, one line in two
C1_Witness ==
    /\ pc = "done"
    /\ has("line_bytes", options)
    /\ Len(splitted) >= 3
    /\ \E k \in 1..Len(splitted) : ~EndsWithLF(splitted[k]) /\ k < Len(splitted)

\* C9: splitting by lines with count n, every piece but the last ends with a
\* line feed and holds exactly n line feeds; the last piece is not empty and
\* holds at most n; with n = 1 there is one piece per line-feed-terminated
\* line plus one for a non-empty trailing partial line.
C9_LinesPieces ==
    (pc = "done" /\ has("lines", options)) =>
        LET n == options["lines"]
            last == Len(splitted)
        IN /\ \A k \in 1..(last - 1) :
                  EndsWithLF(splitted[k]) /\ CountLF(splitted[k]) = n
           /\ last >= 1 =>
                  /\ splitted[last] # <<>>
                  /\ CountLF(splitted[last]) <= n
           /\ n = 1 =>
                  last = CountLF(buffer)
                         + (IF buffer # <<>> /\ ~EndsWithLF(buffer) THEN 1 ELSE 0)

\* two full pieces of two lines each, then a partial line
C9_Witness ==
    /\ pc = "done"
    /\ has("lines", options)
    /\ options["lines"] = 2
    /\ Len(splitted) = 2
    /\ CountLF(splitted[1]) = 2
    /\ ~EndsWithLF(splitted[2])

\* C10: every iteration of the loop of splitByBytes that goes on to another
\* iteration has strictly advanced begin, so the loop ends after finitely
\* many pieces.
C10_BytesLoopAdvances ==
    [][(/\ pc = "loop" /\ loop.name = "splitByBytes"
        /\ pc' = "loop" /\ loop'.name = "splitByBytes"
        /\ loop' # loop /\ ~loop'.brk)
       => loop'.begin > loop.begin]_vars

----------------------------------------------------------------------------
(* Specification of split(buffer, options, callback) *)

Init ==
    /\ pc = "split"
    /\ buffer \in Buffers(MaxAsyncLen)
    /\ rawOptions \in RawAsyncOptions
    /\ hasCallback \in BOOLEAN
    /\ options = NoOptions /\ error = <<>> /\ splitted = <<>>
    /\ ticks = <<>> /\ writes = <<>> /\ done = 0 /\ errored = FALSE
    /\ calls = <<>> /\ uncaught = 0
    /\ NamesIdle /\ LoopIdle

\* process.nextTick(callback, err) and process.nextTick(callback, null, splitted)
ErrorTick == [err |-> TRUE, result |-> <<>>]
SuccessTick(pieces) == [err |-> FALSE, result |-> pieces]

\* split after createFilenames: the writes are issued, or its error scheduled
AfterCreateFilenames(opts, pieces, names) ==
    IF ~names.ok
    THEN [error |-> <<names.error>>, options |-> opts,
          splitted |-> pieces, filenames |-> <<>>, writes |-> <<>>,
          ticks |-> <<ErrorTick>>]
    ELSE [error |-> <<>>,
          options |-> OptionsAfterCreateFilenames(Len(pieces), opts),
          splitted |-> pieces, filenames |-> names.value,
          writes |-> [i \in 1..Len(pieces) |-> "pending"],
          ticks |-> <<>>]

\* split after _split returned
AfterSplit(opts, pieces) ==
    IF has("prefix", opts)
    THEN AfterCreateFilenames(opts, pieces, createFilenames(Len(pieces), opts))
    ELSE [error |-> <<>>, options |-> opts, splitted |-> pieces,
          filenames |-> <<>>, writes |-> <<>>, ticks |-> <<SuccessTick(pieces)>>]

\* split after checkOptions threw or returned
AfterCheckOptions(buf, checked) ==
    IF ~checked.ok
    THEN [error |-> <<checked.error>>, options |-> NoOptions, splitted |-> <<>>,
          filenames |-> <<>>, writes |-> <<>>, ticks |-> <<ErrorTick>>]
    ELSE AfterSplit(checked.value, _split(buf, checked.value))

\* what the synchronous part of split leaves behind
SplitOutcome(buf, _options) == AfterCheckOptions(buf, checkOptions(_options))

SplitReturns(out) ==
    /\ error' = out.error
    /\ options' = out.options
    /\ splitted' = out.splitted
    /\ filenames' = out.filenames
    /\ writes' = out.writes
    /\ ticks' = ticks \o out.ticks
    /\ done' = 0
    /\ errored' = FALSE
    /\ pc' = "returned"

\* the call of split, up to its return: it never throws, every error is
\* handed to process.nextTick
Split ==
    /\ pc = "split"
    /\ SplitReturns(SplitOutcome(buffer, rawOptions))
    /\ UNCHANGED <<buffer, rawOptions, size, loopVars, hasCallback, calls, uncaught>>

\* callback(err, result): the caller's function, or the rethrow default
CallsAfter(err, result) ==
    IF hasCallback THEN Append(calls, [err |-> err, result |-> result]) ELSE calls

UncaughtAfter(err) ==
    IF ~hasCallback /\ err THEN uncaught + 1 ELSE uncaught

\* the event loop runs the next scheduled tick
Tick ==
    /\ pc = "returned"
    /\ ticks # <<>>
    /\ calls' = CallsAfter(Head(ticks).err, Head(ticks).result)
    /\ uncaught' = UncaughtAfter(Head(ticks).err)
    /\ ticks' = Tail(ticks)
    /\ UNCHANGED <<pc, buffer, rawOptions, options, error, splitted, nameVars,
                   loopVars, hasCallback, writes, done, errored>>

\* WriteFileCallback whose failure branch neither sets errored nor returns
WriteFileCallback_IgnoresFailure(index, err) ==
    /\ writes' = [writes EXCEPT ![index] = IF err THEN "failed" ELSE "ok"]
    /\ done' = done + 1
    /\ calls' = IF done + 1 = Len(splitted)
                THEN (IF hasCallback
                      THEN Append(IF err THEN CallsAfter(TRUE, <<>>) ELSE calls,
                                  [err |-> FALSE, result |-> splitted])
                      ELSE calls)
                ELSE IF err THEN CallsAfter(TRUE, <<>>) ELSE calls
    /\ uncaught' = UncaughtAfter(err)
    /\ UNCHANGED errored

\* the callback split passes to fs.writeFile for piece index, called with err
WriteFileCallback(index, err) ==
    /\ writes' = [writes EXCEPT ![index] = IF err THEN "failed" ELSE "ok"]
    /\ IF err
       THEN /\ errored' = TRUE
            /\ calls' = CallsAfter(TRUE, <<>>)
            /\ uncaught' = UncaughtAfter(TRUE)
            /\ UNCHANGED done
       ELSE /\ done' = done + 1
            /\ calls' = IF ~errored /\ done + 1 = Len(splitted)
                        THEN CallsAfter(FALSE, splitted) ELSE calls
            /\ UNCHANGED <<errored, uncaught>>

\* a write issued by split completes, with or without an error
WriteCompletes ==
    /\ pc = "returned"
    /\ \E index \in DOMAIN writes, err \in BOOLEAN :
          /\ writes[index] = "pending"
          /\ WriteFileCallback(index, err)
    /\ UNCHANGED <<pc, buffer, rawOptions, options, error, splitted, nameVars,
                   loopVars, hasCallback, ticks>>

Next == Split \/ Tick \/ WriteCompletes

Spec == Init /\ [][Next]_vars

----------------------------------------------------------------------------
(* Claims about split *)

Pending == {i \in DOMAIN writes : writes[i] = "pending"}
Failed == {i \in DOMAIN writes : writes[i] = "failed"}

\* the call has returned and nothing it started is still to run
Quiescent == pc = "returned" /\ ticks = <<>> /\ Pending = {}

\* C3: with a prefix and a callback, the callback is invoked at most once,
\* whatever writes fail and in whatever order they complete.
C3_AtMostOneNotification ==
    (hasCallback /\ has("prefix", options)) => Len(calls) <= 1

\* C4: for a zero-length buffer and valid options, split ends up having
\* invoked the callback with a success carrying the empty piece sequence,
\* with or without a prefix.
C4_EmptyBufferNotifiesSuccess ==
    (hasCallback /\ buffer = <<>> /\ error = <<>> /\ Quiescent)
    => calls = <<[err |-> FALSE, result |-> <<>>]>>

\* C6: without a callback, a failure of option validation or of splitting
\* is thrown by the call of split itself.
C6_ErrorThrownSynchronously ==
    (~hasCallback /\ pc # "split" /\ error # <<>> /\ options = NoOptions)
    => pc = "threw"

\* C7: with a prefix, a success is delivered only when every write
\* succeeded; once a write has failed no success is ever delivered.
C7_SuccessOnlyIfAllWritesSucceeded ==
    has("prefix", options) =>
        \A k \in 1..Len(calls) :
            ~calls[k].err => \A i \in DOMAIN writes : writes[i] = "ok"

\* three writes, the second failed and the other two succeeded
C7_Witness ==
    /\ hasCallback
    /\ has("prefix", options)
    /\ Len(writes) = 3
    /\ writes[1] = "ok" /\ writes[2] = "failed" /\ writes[3] = "ok"
    /\ calls = <<[err |-> TRUE, result |-> <<>>]>>

----------------------------------------------------------------------------
(* Claims about checkOptions *)

\* C8: every record checkOptions returns has its mode count (lines, bytes or
\* line_bytes) an integer within the safe-integer range and at least 1,
\* whether the count was given as a number or as a sized string.
C8_CountIsSafePositiveInteger ==
    pc = "checked" =>
        \A key \in ModeKeys \cap DOMAIN options :
            /\ options[key] \in Int
            /\ 1 <= options[key]
            /\ options[key] <= MAX_SAFE_INTEGER

----------------------------------------------------------------------------
(* Claims about createFilenames *)

\* the smallest L with radix^L >= n
RECURSIVE RequiredLength(_, _)
RequiredLength(n, radix) ==
    IF n <= 1 THEN 0
    ELSE 1 + RequiredLength((n + radix - 1) \div radix, radix)

Radix(opts) == IF has("numeric_suffixes", opts) THEN 10 ELSE Len(alphabet)

\* C2: whenever createFilenames returns, the filenames it returns are
\* pairwise distinct.
C2_FilenamesDistinct ==
    pc = "named" =>
        \A i, j \in 1..Len(filenames) : i # j => filenames[i] # filenames[j]

\* C5: an explicit suffix_length smaller than the smallest L with
\* radix^L >= size makes createFilenames throw instead of returning names.
C5_ShortSuffixLengthThrows ==
    (/\ pc \in {"named", "threw"}
     /\ has("suffix_length", options)
     /\ options["suffix_length"] < RequiredLength(size, Radix(options)))
    => pc = "threw"

====
